---- MODULE Spec2Model ----
(***************************************************************************)
(* Job orchestration of the asset-training service: training jobs, their   *)
(* frames, the training orchestrator (train_frames_task) with its worker   *)
(* pool and circuit breaker, and pause / resume / rollback.                *)
(***************************************************************************)
EXTENDS Integers, Sequences, FiniteSets, TLC

\* ---------------------------------------------------------------- bounds
NumFrames == 2          \* frames of the video
MaxJobs == 2            \* TrainingJob rows that can be created
MaxQueue == 1           \* tasks waiting in the broker queue
RequestsMaxJobs == 1    \* the same two, where rejected requests are answered
RequestsMaxQueue == 2
CurationMaxJobs == 1     \* jobs where frames are selected, deselected and deleted
AuditMaxJobs == 1        \* jobs where the audit writes can fail
OverlapMaxJobs == 1      \* jobs where a resumed run meets the run still going
MaxPoints == 2          \* point ids alive at once
MaxCounter == 2         \* cap of a job's frame counters
MaxResults == 5         \* length of a per-frame result sequence (breaker runs)
ScenarioFrames == 120   \* frames of the documented scenario A
MaxImages == 3          \* images the decoder can produce
NumConnections == 3     \* WebSocket objects
NumSessions == 2        \* client session ids

\* --------------------------------------------------------------- settings
\* The settings are read from the environment (config.py gives defaults of
\* 50, 10 and 5; the worker is started with a solo pool or a prefork pool of
\* 4). The deployments modelled: batches of one frame with a breaker
\* threshold of two, or batches of two frames with a threshold of one; two
\* embedding workers; a solo pool or a prefork pool of two processes.
TRAINING_BATCH_SIZE == 1
CIRCUIT_BREAKER_THRESHOLD == 2
WIDE_BATCH_SIZE == 2
LOW_BREAKER_THRESHOLD == 1
PARALLEL_EMBEDDING_WORKERS == 2
TRAINING_RETRY_ATTEMPTS == 3
DEFAULT_BATCH_SIZE == 50
SOLO_CONCURRENCY == 1
PREFORK_CONCURRENCY == 2
FRAME_EXTRACTION_BATCH_SIZE == 2

Frames == 1..NumFrames
JobIds == 1..MaxJobs
RunIds == 1..PREFORK_CONCURRENCY
NoJob == 0
NoPoint == 0

VARIABLES
    frames,          \* extracted_frames rows
    jobs,            \* training_jobs rows
    embeddings,      \* frame ids that have a frame_embeddings row
    qdrant,          \* point ids present in the vector index
    delete_calls,    \* point ids of the last qdrant_service.delete_batch call
    queue,           \* tasks sent with apply_async and not yet taken
    runs,            \* train_frames_task invocations being executed
    last_action,     \* action of the newest processing_logs row of each job
    response,        \* outcome of the last API request
    settings,        \* the configuration in force
    limits,          \* the bounds on jobs and queue in force
    alert,           \* what the last step that ended a run sent to alert_service
    selection,       \* the last selection request and the ids its rejection listed
    request,         \* the last accepted execute request: its job and frame_ids
    training_progress, \* the training_progress message the step just taken published
    cb,              \* a run of the batch loop over a given result sequence
    single,          \* a process_single_frame call and the row of its frame
    video,           \* the video_batches row
    frame_rows,      \* the extracted_frames rows committed by extraction
    extraction_queue,\* extract_frames_task messages sent and not yet taken
    extraction,      \* the extract_frames_task invocation
    trigger,         \* the trigger_extraction request being served
    progress,        \* extraction events published on progress_channel
    connections_by_session,  \* ConnectionManager: session id -> set of WebSockets
    session_by_connection,   \* ConnectionManager: WebSocket -> session id
    sockets,         \* each WebSocket: its handler's state and session id
    fanout           \* the manager.broadcast call of redis_subscriber

vars == <<frames, jobs, embeddings, qdrant, delete_calls, queue, runs,
          last_action, response, settings, limits, alert, selection, request,
          training_progress, cb, single,
         video, frame_rows, extraction_queue, extraction, trigger, progress,
         connections_by_session, session_by_connection, sockets, fanout>>

busVars == <<connections_by_session, session_by_connection, sockets, fanout>>

extractionVars == <<video, frame_rows, extraction_queue, extraction, trigger, progress>>

trainingVars == <<frames, jobs, embeddings, qdrant, delete_calls, queue, runs,
                 last_action, response, settings, limits, alert, selection, request,
                 training_progress, cb, single>>

\* ------------------------------------------------------------ enumerations
FrameStatus == {"extracted", "selected", "training", "trained", "deleted"}
JobStatus == {"pending", "processing", "completed", "failed", "paused", "rolled_back"}

NoMessage == [kind |-> "none", failed |-> 0, total |-> 0]
Message(k) == [kind |-> k, failed |-> 0, total |-> 0]
PartialMessage(f, t) == [kind |-> "partial", failed |-> f, total |-> t]

NoSelection == [frame_ids |-> {}, action |-> "none", invalid |-> {}, updated |-> 0]
SelectionRequest(ids, action, invalid, updated) ==
    [frame_ids |-> ids, action |-> action, invalid |-> invalid, updated |-> updated]

NoRequest == [job_id |-> NoJob, frame_ids |-> {}]

NoAlert == [kind |-> "none", job_id |-> NoJob]

\* No training_progress message.
NoProgress ==
    [job_id |-> NoJob, current |-> 0, total |-> 0, percent |-> 0, status |-> "none"]
Alert(k, j) == [kind |-> k, job_id |-> j]

\* ------------------------------------------------------------------- rows
NewFrame ==
    [status |-> "extracted", qdrant_point_id |-> NoPoint,
     training_job_id |-> NoJob, deleted_at |-> FALSE, last_error |-> FALSE]

AbsentJob ==
    [status |-> "absent", total_frames |-> 0, processed_frames |-> 0,
     failed_frames |-> 0, error_message |-> NoMessage,
     completed_at |-> FALSE, rolled_back_at |-> FALSE]

FreeRun ==
    [pc |-> "free", job_id |-> NoJob, frames |-> <<>>, batch_start |-> 0,
     consecutive_failures |-> 0, job |-> AbsentJob,
     work |-> [f \in Frames |-> "idle"]]

\* No call: the frame is selected and has no replica row.
IdleSingle ==
    [pc |-> "idle", attempt |-> 0, row |-> "selected", replica |-> FALSE,
     attempts |-> <<>>, upserts |-> 0, result |-> "none"]

IdleBreaker ==
    [pc |-> "idle", results |-> <<>>, size |-> 1, batch_start |-> 0,
     consecutive_failures |-> 0, open |-> FALSE, events |-> <<>>]

\* ---------------------------------------------------------------- helpers
Min(S) == CHOOSE x \in S : \A y \in S : x <= y

RECURSIVE SortedSeq(_)
SortedSeq(S) == IF S = {} THEN <<>> ELSE <<Min(S)>> \o SortedSeq(S \ {Min(S)})

\* The ORM writes, on commit, the attributes whose value differs from the one
\* the session loaded; the others keep what the row holds.
Flush(row, loaded, new) ==
    [k \in DOMAIN row |-> IF new[k] # loaded[k] THEN new[k] ELSE row[k]]

SelectedFrames ==
    {f \in Frames : frames[f].status = "selected" /\ ~frames[f].deleted_at}

AbsentJobs == {j \in JobIds : jobs[j].status = "absent"}

\* ------------------------------------------------------------ celery tasks
FreeRuns == {r \in RunIds : runs[r].pc = "free"}
ActiveRuns == RunIds \ FreeRuns

\* apply_async: the task joins the broker queue.
Dispatch(task, j) == Append(queue, [task |-> task, job_id |-> j])

\* A pool process is idle and the task at the head of the queue is this one.
Taken(task, j) ==
    /\ queue # <<>>
    /\ Head(queue) = [task |-> task, job_id |-> j]
    /\ Cardinality(ActiveRuns) < settings.concurrency

\* ------------------------------------------------------- api/training.py
ExecuteFrames(ids) == IF ids = {} THEN SelectedFrames ELSE SelectedFrames \cap ids

\* lines 170-246
ExecuteAccepted(ids) == ExecuteFrames(ids) # {} /\ ids \subseteq ExecuteFrames(ids)

ExecuteTraining(ids) ==
    /\ Cardinality(AbsentJobs) > MaxJobs - limits.jobs
    /\ Len(queue) < limits.queue
    /\ IF ExecuteAccepted(ids)
       THEN LET j == Min(AbsentJobs) IN
            /\ jobs' = [jobs EXCEPT ![j] =
                          [AbsentJob EXCEPT !.status = "pending",
                                            !.total_frames = Cardinality(ExecuteFrames(ids))]]
            /\ queue' = Dispatch("train", j)
            /\ last_action' = [last_action EXCEPT ![j] = "training_started"]
            /\ response' = "accepted"
            /\ request' = [job_id |-> j, frame_ids |-> ids]
       ELSE /\ response' = "execute_rejected"
            /\ UNCHANGED <<jobs, queue, last_action, request>>
    /\ training_progress' = NoProgress
    /\ UNCHANGED <<frames, embeddings, qdrant, delete_calls, runs, settings, limits, alert, selection, extractionVars, busVars, cb, single>>

\* lines 622-627
PauseAccepted(j) == jobs[j].status = "processing"

PauseTrainingJob(j) ==
    /\ jobs[j].status # "absent"
    /\ IF PauseAccepted(j)
       THEN /\ jobs' = [jobs EXCEPT ![j].status = "paused"]
            /\ last_action' = [last_action EXCEPT ![j] = "training_job_paused"]
            /\ response' = "accepted"
       ELSE /\ response' = "pause_rejected"
            /\ UNCHANGED <<jobs, last_action>>
    /\ training_progress' = NoProgress
    /\ UNCHANGED <<frames, embeddings, qdrant, delete_calls, queue, runs,
                   settings, limits, alert, selection, request, extractionVars, busVars, cb, single>>

\* A guard that also lets a failed job through.
ResumeAcceptedOrFailed(j) == jobs[j].status \in {"paused", "failed"}

\* lines 476-481
ResumeAccepted(j) == jobs[j].status = "paused"

ResumeTraining(j) ==
    /\ jobs[j].status # "absent"
    /\ Len(queue) < limits.queue
    /\ IF ResumeAccepted(j)
       THEN /\ jobs' = [jobs EXCEPT ![j].status = "pending",
                                    ![j].error_message = NoMessage]
            /\ queue' = Dispatch("train", j)
            /\ last_action' = [last_action EXCEPT ![j] = "training_resumed"]
            /\ response' = "accepted"
       ELSE /\ response' = "resume_rejected"
            /\ UNCHANGED <<jobs, queue, last_action>>
    /\ training_progress' = NoProgress
    /\ UNCHANGED <<frames, embeddings, qdrant, delete_calls, runs, settings, limits, alert, selection, request, extractionVars, busVars, cb, single>>

\* A guard that only keeps running jobs out.
RollbackAcceptedUnlessRunning(j) == jobs[j].status \notin {"pending", "processing"}

\* lines 394-405
RollbackAccepted(j) == jobs[j].status \in {"completed", "failed"}

RollbackTraining(j) ==
    /\ jobs[j].status # "absent"
    /\ Len(queue) < limits.queue
    /\ IF RollbackAccepted(j)
       THEN /\ queue' = Dispatch("rollback", j)
            /\ last_action' = [last_action EXCEPT ![j] = "rollback_started"]
            /\ response' = "accepted"
       ELSE /\ response' = "rollback_rejected"
            /\ UNCHANGED <<queue, last_action>>
    /\ training_progress' = NoProgress
    /\ UNCHANGED <<frames, jobs, embeddings, qdrant, delete_calls, runs,
                   settings, limits, alert, selection, request, extractionVars, busVars, cb, single>>

\* ---------------------------------------------------------- api/frames.py
\* A check that lets frames in training through.
InvalidFramesButTraining(ids) ==
    {f \in ids : frames[f].status \in {"trained", "deleted"}}

\* lines 138-146: the frames a select request may not name.
InvalidFrames(ids) ==
    {f \in ids : frames[f].status \in {"trained", "deleted", "training"}}

\* lines 155-159
TargetStatus(action) == IF action = "select" THEN "selected" ELSE "extracted"

\* lines 160-165: the frames not yet in the target status, which are the ones
\* written and counted.
UpdatedFrames(ids, action) ==
    {f \in ids : frames[f].status # TargetStatus(action)}

\* lines 111-200: select or deselect the frames named.
UpdateFrameSelection(ids, action) ==
    /\ ids # {}
    /\ IF action = "select" /\ InvalidFrames(ids) # {}
       THEN /\ response' = "select_rejected"
            /\ selection' = SelectionRequest(ids, action, InvalidFrames(ids), 0)
            /\ UNCHANGED frames
       ELSE /\ frames' = [f \in Frames |->
                            IF f \in ids
                            THEN [frames[f] EXCEPT !.status = TargetStatus(action)]
                            ELSE frames[f]]
            /\ response' = "accepted"
            /\ selection' = SelectionRequest(ids, action, {},
                                              Cardinality(UpdatedFrames(ids, action)))
    /\ training_progress' = NoProgress
    /\ UNCHANGED <<jobs, embeddings, qdrant, delete_calls, queue, runs,
                   last_action, settings, limits, alert, request, extractionVars, busVars, cb, single>>

\* lines 452-577, permanent = false: the soft delete.
DeleteFrame(f) ==
    /\ frames' = [frames EXCEPT ![f].status = "deleted", ![f].deleted_at = TRUE]
    /\ response' = "accepted"
    /\ training_progress' = NoProgress
    /\ UNCHANGED <<jobs, embeddings, qdrant, delete_calls, queue, runs,
                   last_action, settings, limits, alert, selection, request, extractionVars, busVars, cb, single>>

\* ------------------------------------------- tasks/training.py (orchestrator)
Release(r) == [runs EXCEPT ![r] = FreeRun]

\* A check that looks for the wrong status.
OtherPending(j) ==
    {k \in JobIds : k # j /\ jobs[k].status = "pending"}

\* lines 107-113
OtherProcessing(j) ==
    {k \in JobIds : k # j /\ jobs[k].status = "processing"}

\* lines 76-120: load the job, fetch the selected frames, look for another
\* processing job; the two early exits commit at once.
RunEnter(r, j) ==
    /\ Taken("train", j)
    /\ r = Min(FreeRuns)
    /\ queue' = Tail(queue)
    /\ IF SelectedFrames = {}
       THEN /\ jobs' = [jobs EXCEPT ![j].status = "completed",
                                    ![j].completed_at = TRUE]
            /\ UNCHANGED runs
       ELSE IF OtherProcessing(j) # {}
       THEN /\ jobs' = [jobs EXCEPT ![j].status = "paused",
                                    ![j].error_message = Message("another_job")]
            /\ UNCHANGED runs
       ELSE /\ runs' = [runs EXCEPT ![r] =
                          [FreeRun EXCEPT !.pc = "checked", !.job_id = j,
                                          !.frames = SortedSeq(SelectedFrames),
                                          !.job = jobs[j]]]
            /\ UNCHANGED jobs
    /\ training_progress' = NoProgress
    /\ UNCHANGED <<frames, embeddings, qdrant, delete_calls, last_action,
                   response, settings, limits, alert, selection, request, extractionVars, busVars, cb, single>>

\* lines 122-134: total_frames, PROCESSING, commit.
RunStart(r) ==
    /\ runs[r].pc = "checked"
    /\ LET j == runs[r].job_id
           new == [runs[r].job EXCEPT !.total_frames = Len(runs[r].frames),
                                      !.status = "processing"]
       IN  jobs' = [jobs EXCEPT ![j] = Flush(jobs[j], runs[r].job, new)]
    /\ runs' = [runs EXCEPT ![r].pc = "started"]
    /\ training_progress' = NoProgress
    /\ UNCHANGED <<frames, embeddings, qdrant, delete_calls, queue,
                   last_action, response, settings, limits, alert, selection, request, extractionVars, busVars, cb, single>>

\* lines 137-152: the job is loaded again after the commit, the collection is there.
RunCollectionReady(r) ==
    /\ runs[r].pc = "started"
    /\ runs' = [runs EXCEPT ![r].pc = "loop", ![r].job = jobs[runs[r].job_id]]
    /\ training_progress' = NoProgress
    /\ UNCHANGED <<frames, jobs, embeddings, qdrant, delete_calls, queue,
                   last_action, response, settings, limits, alert, selection, request, extractionVars, busVars, cb, single>>

\* lines 386-431: the outermost handler, in a session of its own.
ExceptionHandler(j) ==
    [jobs EXCEPT ![j].status = "failed",
                 ![j].error_message = Message("exception"),
                 ![j].completed_at = TRUE]

\* line 152 raises; the handler marks the job failed.
RunCollectionFails(r) ==
    /\ runs[r].pc = "started"
    /\ jobs' = ExceptionHandler(runs[r].job_id)
    /\ last_action' = [last_action EXCEPT ![runs[r].job_id] = "training_failed"]
    /\ alert' = Alert("training_failure", runs[r].job_id)
    /\ runs' = Release(r)
    /\ training_progress' = NoProgress
    /\ UNCHANGED <<frames, embeddings, qdrant, delete_calls, queue,
                   response, settings, limits, selection, request, extractionVars, busVars, cb, single>>

BatchEnd(r) ==
    IF runs[r].batch_start + settings.TRAINING_BATCH_SIZE < Len(runs[r].frames)
    THEN runs[r].batch_start + settings.TRAINING_BATCH_SIZE ELSE Len(runs[r].frames)

BatchFrames(r) == {runs[r].frames[i] : i \in (runs[r].batch_start + 1)..BatchEnd(r)}

\* lines 156-177: the pause check on the loaded job, then the batch is handed
\* to the pool.
RunBatchBegin(r) ==
    /\ runs[r].pc = "loop"
    /\ runs[r].batch_start < Len(runs[r].frames)
    /\ IF runs[r].job.status = "paused"
       THEN runs' = Release(r)
       ELSE /\ runs[r].job.processed_frames + runs[r].job.failed_frames
                 + Cardinality(BatchFrames(r)) <= MaxCounter
            /\ runs' = [runs EXCEPT ![r].pc = "batch",
                          ![r].work = [f \in Frames |->
                                IF f \in BatchFrames(r) THEN "queued" ELSE "idle"]]
    /\ training_progress' = NoProgress
    /\ UNCHANGED <<frames, jobs, embeddings, qdrant, delete_calls, queue,
                   last_action, response, settings, limits, alert, selection, request, extractionVars, busVars, cb, single>>

\* ---------------------------------------- process_single_frame (one worker)
InFlight(r) == {f \in Frames : runs[r].work[f] = "training"}

UsedPoints == qdrant \cup {frames[f].qdrant_point_id : f \in Frames}

\* generate_point_id: a uuid4, an identifier nothing else holds.
FreshPoints == (1..MaxPoints) \ UsedPoints

\* lines 530-540: first attempt, the frame is marked TRAINING and linked.
WorkerStart(r, f) ==
    /\ runs[r].pc = "batch"
    /\ runs[r].work[f] = "queued"
    /\ Cardinality(InFlight(r)) < PARALLEL_EMBEDDING_WORKERS
    /\ frames' = [frames EXCEPT ![f].status = "training",
                                ![f].training_job_id = runs[r].job_id]
    /\ runs' = [runs EXCEPT ![r].work[f] = "training"]
    /\ training_progress' = NoProgress
    /\ UNCHANGED <<jobs, embeddings, qdrant, delete_calls, queue,
                   last_action, response, settings, limits, alert, selection, request, extractionVars, busVars, cb, single>>

\* lines 542-616: the attempts get as far as the upsert. With no replica row
\* for the frame yet the first one goes through: replica stored, frame
\* TRAINED. With one (frame_embeddings.frame_id is unique) every commit fails
\* after its upsert: the vector stays in the index (one point stands for those
\* of the attempts) and lines 618-644 put the frame back to SELECTED.
WorkerUpsert(r, f) ==
    /\ runs[r].pc = "batch"
    /\ runs[r].work[f] = "training"
    /\ FreshPoints # {}
    /\ LET p == Min(FreshPoints) IN
       /\ qdrant' = qdrant \cup {p}
       /\ IF f \notin embeddings
          THEN /\ frames' = [frames EXCEPT ![f].status = "trained",
                                           ![f].qdrant_point_id = p,
                                           ![f].last_error = FALSE]
               /\ embeddings' = embeddings \cup {f}
               /\ runs' = [runs EXCEPT ![r].work[f] = "ok"]
          ELSE /\ frames' = [frames EXCEPT ![f].status = "selected",
                                           ![f].last_error = TRUE]
               /\ UNCHANGED embeddings
               /\ runs' = [runs EXCEPT ![r].work[f] = "failed"]
    /\ training_progress' = NoProgress
    /\ UNCHANGED <<jobs, delete_calls, queue, last_action, response,
                   settings, limits, alert, selection, request, extractionVars, busVars, cb, single>>

\* lines 618-644: every attempt failed before its upsert; the frame goes back
\* to SELECTED.
WorkerFail(r, f) ==
    /\ runs[r].pc = "batch"
    /\ runs[r].work[f] = "training"
    /\ frames' = [frames EXCEPT ![f].status = "selected",
                                ![f].last_error = TRUE]
    /\ runs' = [runs EXCEPT ![r].work[f] = "failed"]
    /\ training_progress' = NoProgress
    /\ UNCHANGED <<jobs, embeddings, qdrant, delete_calls, queue,
                   last_action, response, settings, limits, alert, selection, request, extractionVars, busVars, cb, single>>

\* ------------------------------------------------ broadcast_training_progress
\* line 375: percent=100.0, in hundredths.
FinalPercent == 10000

\* A percentage cut off after two decimals.
PercentTruncated(current, total) == (10000 * current) \div total

\* lines 268 and 862: round((current / total) * 100, 2), in hundredths. The
\* quotient is a tie of the rounding only when 32 divides total.
Percent(current, total) == (20000 * current + total) \div (2 * total)

\* lines 856-869: the message put on progress_channel.
TrainingProgress(j, current, total, percent, status) ==
    [job_id |-> j, current |-> current, total |-> total, percent |-> percent,
     status |-> status]

\* ------------------------------------------------ batch results and breaker
BatchSuccess(r) == Cardinality({f \in Frames : runs[r].work[f] = "ok"})
BatchFailed(r) == Cardinality({f \in Frames : runs[r].work[f] = "failed"})

\* A count that is never reset.
NextConsecutiveNoReset(consecutive_failures, failed) ==
    consecutive_failures + failed

\* lines 190-194
NextConsecutive(consecutive_failures, failed) ==
    IF failed > 0 THEN consecutive_failures + failed ELSE 0

\* A breaker that opens at the first failure.
BreakerTrippedAtOnce(consecutive_failures) ==
    consecutive_failures >= 1

\* line 196
BreakerTripped(consecutive_failures) ==
    consecutive_failures >= settings.CIRCUIT_BREAKER_THRESHOLD

\* lines 179-181
Counted(job, success, failed) ==
    [job EXCEPT !.processed_frames = @ + success, !.failed_frames = @ + failed]

\* lines 179-284: after the pool has drained.
RunBatchEnd(r) ==
    /\ runs[r].pc = "batch"
    /\ \A f \in Frames : runs[r].work[f] \in {"idle", "ok", "failed"}
    /\ LET j == runs[r].job_id
           new == Counted(runs[r].job, BatchSuccess(r), BatchFailed(r))
           cf == NextConsecutive(runs[r].consecutive_failures, BatchFailed(r))
       IN  IF BreakerTripped(cf)
           THEN /\ jobs' = [jobs EXCEPT ![j] =
                              Flush(jobs[j], runs[r].job,
                                    [new EXCEPT !.status = "paused",
                                                !.error_message = Message("circuit_breaker")])]
                /\ last_action' = [last_action EXCEPT ![j] = "circuit_breaker_triggered"]
                /\ alert' = Alert("circuit_breaker", j)
                /\ runs' = Release(r)
                /\ training_progress' = NoProgress
           ELSE /\ jobs' = [jobs EXCEPT ![j] = Flush(jobs[j], runs[r].job, new)]
                /\ training_progress' =
                      TrainingProgress(j, BatchEnd(r), Len(runs[r].frames),
                                       Percent(BatchEnd(r), Len(runs[r].frames)),
                                       "processing")
                /\ runs' = [runs EXCEPT ![r].pc = "loop",
                                        ![r].batch_start = BatchEnd(r),
                                        ![r].consecutive_failures = cf,
                                        ![r].job = jobs'[j],
                                        ![r].work = [f \in Frames |-> "idle"]]
                /\ UNCHANGED <<last_action, alert>>
    /\ UNCHANGED <<frames, embeddings, qdrant, delete_calls, queue,
                   response, settings, limits, selection, request, extractionVars, busVars, cb, single>>

\* lines 287-328: the final status from the loaded counters.
TerminalJob(job) ==
    IF job.processed_frames = 0 /\ job.failed_frames > 0
    THEN [job EXCEPT !.status = "failed",
                     !.error_message = [kind |-> "all_failed",
                                        failed |-> job.failed_frames, total |-> 0]]
    ELSE IF job.processed_frames > 0 /\ job.failed_frames > 0
    THEN [job EXCEPT !.status = "completed",
                     !.error_message = PartialMessage(job.failed_frames, job.total_frames)]
    ELSE [job EXCEPT !.status = "completed", !.error_message = NoMessage]

TerminalAction(job) ==
    IF job.processed_frames = 0 /\ job.failed_frames > 0 THEN "training_failed"
    ELSE IF job.processed_frames > 0 /\ job.failed_frames > 0
    THEN "training_completed_with_failures"
    ELSE "training_completed"

\* lines 297-322: the failure alert of terminal resolution.
TerminalAlert(job, j) ==
    IF job.processed_frames = 0 /\ job.failed_frames > 0
    THEN Alert("training_failure", j)
    ELSE IF /\ job.processed_frames > 0 /\ job.failed_frames > 0
            /\ job.total_frames > 0
            /\ 2 * job.failed_frames > job.total_frames
    THEN Alert("training_failure", j)
    ELSE NoAlert

\* lines 286-384: the loop is over.
RunFinish(r) ==
    /\ runs[r].pc = "loop"
    /\ runs[r].batch_start >= Len(runs[r].frames)
    /\ LET j == runs[r].job_id IN
       /\ jobs' = [jobs EXCEPT ![j] =
                     [Flush(jobs[j], runs[r].job, TerminalJob(runs[r].job))
                        EXCEPT !.completed_at = TRUE]]
       /\ last_action' = [last_action EXCEPT ![j] = TerminalAction(runs[r].job)]
       /\ alert' = TerminalAlert(runs[r].job, j)
       /\ training_progress' =
             TrainingProgress(j, jobs'[j].processed_frames, Len(runs[r].frames),
                              FinalPercent, TerminalJob(runs[r].job).status)
    /\ runs' = Release(r)
    /\ UNCHANGED <<frames, embeddings, qdrant, delete_calls, queue,
                   response, settings, limits, selection, request, extractionVars, busVars, cb, single>>

\* RunFinish in two steps, for the case where the processing_logs write
\* fails. Lines 286-341: the terminal status is committed.
RunCommitTerminal(r) ==
    /\ runs[r].pc = "loop"
    /\ runs[r].batch_start >= Len(runs[r].frames)
    /\ LET j == runs[r].job_id IN
       /\ jobs' = [jobs EXCEPT ![j] =
                     [Flush(jobs[j], runs[r].job, TerminalJob(runs[r].job))
                        EXCEPT !.completed_at = TRUE]]
       /\ alert' = TerminalAlert(runs[r].job, j)
    /\ runs' = [runs EXCEPT ![r].pc = "logging"]
    /\ training_progress' = NoProgress
    /\ UNCHANGED <<frames, embeddings, qdrant, delete_calls, queue, last_action,
                   response, settings, limits, selection, request, extractionVars, busVars, cb, single>>

\* Lines 351-384: the log entry is committed and the task returns.
RunLogged(r) ==
    /\ runs[r].pc = "logging"
    /\ last_action' = [last_action EXCEPT ![runs[r].job_id] = TerminalAction(runs[r].job)]
    /\ training_progress' =
          TrainingProgress(runs[r].job_id, jobs[runs[r].job_id].processed_frames,
                           Len(runs[r].frames), FinalPercent,
                           TerminalJob(runs[r].job).status)
    /\ runs' = Release(r)
    /\ UNCHANGED <<frames, jobs, embeddings, qdrant, delete_calls, queue, alert,
                   response, settings, limits, selection, request, extractionVars, busVars, cb, single>>

\* Lines 366-367 raise: the except clause (386-431) marks the job failed,
\* sends the failure alert and writes its own log entry.
RunLogFails(r) ==
    /\ runs[r].pc = "logging"
    /\ jobs' = ExceptionHandler(runs[r].job_id)
    /\ last_action' = [last_action EXCEPT ![runs[r].job_id] = "training_failed"]
    /\ alert' = Alert("training_failure", runs[r].job_id)
    /\ runs' = Release(r)
    /\ training_progress' = NoProgress
    /\ UNCHANGED <<frames, embeddings, qdrant, delete_calls, queue,
                   response, settings, limits, selection, request, extractionVars, busVars, cb, single>>

\* Line 152 raises and the handler's own session raises too (lines 390-391
\* or the commit of line 400): the task ends with the row as it was.
RunHandlerFails(r) ==
    /\ runs[r].pc = "started"
    /\ runs' = Release(r)
    /\ training_progress' = NoProgress
    /\ UNCHANGED <<frames, jobs, embeddings, qdrant, delete_calls, queue, last_action,
                   alert, response, settings, limits, selection, request, extractionVars, busVars, cb, single>>

\* --------------------------------------------------- rollback_training_task
\* lines 675-681: frames linked to the job
LinkedFrames(j) ==
    {f \in Frames : /\ frames[f].training_job_id = j
                    /\ frames[f].status \in {"trained", "training"}
                    /\ frames[f].qdrant_point_id # NoPoint}

\* lines 690-697: every trained frame of the video
VideoTrainedFrames ==
    {f \in Frames : /\ frames[f].status = "trained"
                    /\ frames[f].qdrant_point_id # NoPoint
                    /\ ~frames[f].deleted_at}

\* A query that always adds the trained frames of the video.
RollbackFramesWithVideo(j) == LinkedFrames(j) \cup VideoTrainedFrames

\* lines 673-697
RollbackFrames(j) ==
    IF LinkedFrames(j) # {} THEN LinkedFrames(j) ELSE VideoTrainedFrames

\* lines 662-664
RollbackAllowed(j) == jobs[j].status \in {"completed", "failed"}

PointIds(fs) == {frames[f].qdrant_point_id : f \in fs}

\* A reset that leaves the job link in place.
ResetFrameKeepsLink(row) ==
    [row EXCEPT !.status = "selected", !.qdrant_point_id = NoPoint]

\* lines 752-775
ResetFrame(row) ==
    [row EXCEPT !.status = "selected", !.qdrant_point_id = NoPoint,
                !.training_job_id = NoJob]

\* A task that gives up, leaving rows, replicas and job as they are, when the
\* index did not remove every point.
RollbackTrainingTaskAllOrNothing(j, deleted) ==
    /\ Taken("rollback", j)
    /\ queue' = Tail(queue)
    /\ IF ~RollbackAllowed(j)
       THEN /\ deleted = {}
            /\ UNCHANGED <<frames, jobs, embeddings, qdrant, delete_calls, last_action>>
       ELSE LET matched == RollbackFrames(j) IN
            /\ deleted \subseteq PointIds(matched)
            /\ delete_calls' = IF matched = {} THEN delete_calls ELSE PointIds(matched)
            /\ qdrant' = qdrant \ deleted
            /\ IF deleted = PointIds(matched)
               THEN /\ embeddings' = embeddings \ matched
                    /\ frames' = [f \in Frames |->
                                    IF f \in matched THEN ResetFrame(frames[f])
                                    ELSE frames[f]]
                    /\ jobs' = [jobs EXCEPT ![j].status = "rolled_back",
                                            ![j].rolled_back_at = TRUE]
                    /\ last_action' = IF matched = {} THEN last_action
                                      ELSE [last_action EXCEPT ![j] = "training_rolled_back"]
               ELSE UNCHANGED <<frames, jobs, embeddings, last_action>>
    /\ training_progress' = NoProgress
    /\ UNCHANGED <<runs, response, settings, limits, alert, selection, request, extractionVars, busVars, cb, single>>

\* The task; deleted is the set of points delete_batch really removed (none
\* when it raised).
RollbackTrainingTask(j, deleted) ==
    /\ Taken("rollback", j)
    /\ queue' = Tail(queue)
    /\ IF ~RollbackAllowed(j)
       THEN /\ deleted = {}
            /\ UNCHANGED <<frames, jobs, embeddings, qdrant, delete_calls, last_action>>
       ELSE LET matched == RollbackFrames(j) IN
            /\ deleted \subseteq PointIds(matched)
            /\ delete_calls' = IF matched = {} THEN delete_calls ELSE PointIds(matched)
            /\ qdrant' = qdrant \ deleted
            /\ embeddings' = embeddings \ matched
            /\ frames' = [f \in Frames |->
                            IF f \in matched THEN ResetFrame(frames[f]) ELSE frames[f]]
            /\ jobs' = [jobs EXCEPT ![j].status = "rolled_back",
                                    ![j].rolled_back_at = TRUE]
            /\ last_action' = IF matched = {} THEN last_action
                              ELSE [last_action EXCEPT ![j] = "training_rolled_back"]
    /\ training_progress' = NoProgress
    /\ UNCHANGED <<runs, response, settings, limits, alert, selection, request, extractionVars, busVars, cb, single>>

\* ------------------------------------- the batch loop on a result sequence
\* lines 156-284 with the frames reduced to what each one's worker returns;
\* events lists the messages published so far.
ResultSeqs == UNION {[1..n -> {"ok", "failed"}] : n \in 1..MaxResults}

BreakerBatchEnd ==
    IF cb.batch_start + cb.size < Len(cb.results)
    THEN cb.batch_start + cb.size ELSE Len(cb.results)

BreakerBatchFailed ==
    Cardinality({i \in (cb.batch_start + 1)..BreakerBatchEnd : cb.results[i] = "failed"})

\* lines 267-278
BreakerBatchEvent ==
    TrainingProgress(NoJob, BreakerBatchEnd, Len(cb.results),
                     Percent(BreakerBatchEnd, Len(cb.results)), "processing")

BreakerBatch ==
    /\ cb.pc = "loop"
    /\ cb.batch_start < Len(cb.results)
    /\ LET cf == NextConsecutive(cb.consecutive_failures, BreakerBatchFailed) IN
       cb' = IF BreakerTripped(cf)
             THEN [cb EXCEPT !.pc = "done", !.open = TRUE,
                             !.batch_start = BreakerBatchEnd,
                             !.consecutive_failures = cf]
             ELSE [cb EXCEPT !.batch_start = BreakerBatchEnd,
                             !.consecutive_failures = cf,
                             !.events = Append(@, BreakerBatchEvent)]
    /\ UNCHANGED <<frames, jobs, embeddings, qdrant, delete_calls, runs,
                   queue, last_action, response, settings, limits, alert, selection, request, training_progress, extractionVars, busVars, single>>

BreakerFinish ==
    /\ cb.pc = "loop"
    /\ cb.batch_start >= Len(cb.results)
    /\ cb' = [cb EXCEPT !.pc = "done"]
    /\ UNCHANGED <<frames, jobs, embeddings, qdrant, delete_calls, runs,
                   queue, last_action, response, settings, limits, alert, selection, request, training_progress, extractionVars, busVars, single>>

\* ------------------------------------------------- one process_single_frame
\* The call on one frame, attempt by attempt. row is the status of the frame's
\* row ("missing" once it is deleted for good), replica says whether a
\* frame_embeddings row exists for it, attempts lists how each run of the
\* per-frame sequence ended, upserts counts the points written to the index.
OtherVars ==
    <<frames, jobs, embeddings, qdrant, delete_calls, queue, runs, last_action,
      response, settings, limits, alert, selection, request, training_progress,
      cb, extractionVars, busVars>>

\* A loop that goes round once more.
MoreAttemptsOneMore(attempt) == attempt < TRAINING_RETRY_ATTEMPTS

\* line 525: for attempt in range(retry_attempts), after this attempt.
MoreAttempts(attempt) == attempt + 1 < TRAINING_RETRY_ATTEMPTS

\* lines 618-628: the attempt failed; back off and go round, or fall out of
\* the loop.
AttemptFailed(s) ==
    [s EXCEPT !.attempts = Append(@, "failed"),
              !.attempt = @ + 1,
              !.pc = IF MoreAttempts(s.attempt) THEN "load" ELSE "revert"]

\* lines 529-540: the row is read; a missing row ends the call at once, the
\* first attempt marks the frame TRAINING.
SingleLoad ==
    /\ single.pc = "load"
    /\ single' = IF single.row = "missing"
                 THEN [single EXCEPT !.pc = "returned", !.result = "failed"]
                 ELSE [single EXCEPT !.pc = "download",
                                     !.row = IF single.attempt = 0 THEN "training" ELSE @]
    /\ UNCHANGED OtherVars

\* lines 542-556: download, embedding, dimension check; any of them can raise.
SingleCompute(ok) ==
    /\ single.pc \in {"download", "embed", "validate"}
    /\ single' = IF ok
                 THEN [single EXCEPT !.pc = CASE single.pc = "download" -> "embed"
                                             [] single.pc = "embed" -> "validate"
                                             [] OTHER -> "upsert"]
                 ELSE AttemptFailed(single)
    /\ UNCHANGED OtherVars

\* lines 558-584: a point under a new uuid, or the upsert fails.
SingleUpsert(ok) ==
    /\ single.pc = "upsert"
    /\ single' = IF ok
                 THEN [single EXCEPT !.pc = "persist", !.upserts = @ + 1]
                 ELSE AttemptFailed(single)
    /\ UNCHANGED OtherVars

\* lines 586-616: replica row and TRAINED in one commit. It fails when the
\* frame already has a replica row or its row is gone, or for any other reason.
SinglePersist(ok) ==
    /\ single.pc = "persist"
    /\ ok => (single.row # "missing" /\ ~single.replica)
    /\ single' = IF ok
                 THEN [single EXCEPT !.pc = "returned", !.row = "trained",
                                     !.replica = TRUE,
                                     !.attempts = Append(@, "ok"),
                                     !.result = "ok"]
                 ELSE AttemptFailed(single)
    /\ UNCHANGED OtherVars

\* lines 630-644: every attempt failed; the frame goes back to SELECTED and
\* the call returns None.
SingleRevert ==
    /\ single.pc = "revert"
    /\ single' = [single EXCEPT !.pc = "returned", !.result = "failed",
                                !.row = IF @ = "missing" THEN @ ELSE "selected"]
    /\ UNCHANGED OtherVars

\* api/frames.py, permanent = true: row and replica are deleted, whatever the
\* status of the frame.
DeleteFramePermanent ==
    /\ single.pc \notin {"idle", "returned"}
    /\ single.row # "missing"
    /\ single' = [single EXCEPT !.row = "missing", !.replica = FALSE]
    /\ UNCHANGED OtherVars

\* ------------------------------------- api/video.py, tasks/extraction.py
VideoStatus == {"uploading", "uploaded", "extracting", "extracted", "failed"}

\* The texts of the exceptions a frame of a batch can raise.
ExceptionTexts == {"thumbnail_error", "s3_error"}

UploadedVideo == [status |-> "uploaded", total_frames |-> 0, error_message |-> "none"]

\* total_frames and batch_start are the locals of the task; added counts the
\* rows of the current batch added to the session and not yet committed.
IdleExtraction ==
    [pc |-> "idle", total_frames |-> 0, batch_start |-> 0, added |-> 0, error |-> "none"]

IdleTrigger == [pc |-> "idle", response |-> "none"]

ProgressEvent(current, total, status) ==
    [current |-> current, total |-> total, status |-> status]

\* trigger_extraction up to the .delay() call: only an uploaded video is sent.
TriggerExtraction ==
    /\ trigger.pc = "idle"
    /\ IF video.status # "uploaded"
       THEN /\ trigger' = [pc |-> "idle", response |-> "not_uploaded"]
            /\ UNCHANGED extraction_queue
       ELSE /\ extraction_queue' = extraction_queue + 1
            /\ trigger' = [pc |-> "dispatched", response |-> "none"]
    /\ UNCHANGED <<video, frame_rows, extraction, progress, trainingVars, busVars>>

\* trigger_extraction after the .delay() call: the status is committed.
TriggerCommit ==
    /\ trigger.pc = "dispatched"
    /\ video' = [video EXCEPT !.status = "extracting"]
    /\ trigger' = [pc |-> "idle", response |-> "accepted"]
    /\ UNCHANGED <<frame_rows, extraction_queue, extraction, progress, trainingVars, busVars>>

\* extract_frames_task up to the listing of the decoded images.
ExtractStart ==
    /\ extraction_queue > 0
    /\ extraction.pc = "idle"
    /\ extraction_queue' = extraction_queue - 1
    /\ \E exists \in BOOLEAN, returncode \in {0, 1}, n \in 0..MaxImages :
         IF ~exists
         THEN /\ video' = [video EXCEPT !.status = "failed",
                                        !.error_message = "file_not_found"]
              /\ extraction' = [extraction EXCEPT !.pc = "returned"]
         ELSE IF returncode # 0
         THEN /\ video' = [video EXCEPT !.status = "failed",
                                        !.error_message = "ffmpeg_error"]
              /\ extraction' = [extraction EXCEPT !.pc = "returned"]
         ELSE /\ extraction' = [extraction EXCEPT !.pc = "batches", !.total_frames = n]
              /\ UNCHANGED video
    /\ UNCHANGED <<frame_rows, trigger, progress, trainingVars, busVars>>

ExtractionBatchEnd(x) == Min({x.batch_start + FRAME_EXTRACTION_BATCH_SIZE, x.total_frames})

\* One frame of the batch: thumbnail, uploads, db.add; or an exception, which
\* leaves get_db_context through its rollback.
ExtractFrame ==
    /\ extraction.pc = "batches"
    /\ extraction.batch_start + extraction.added < ExtractionBatchEnd(extraction)
    /\ \/ extraction' = [extraction EXCEPT !.added = @ + 1]
       \/ \E e \in ExceptionTexts :
            extraction' = [extraction EXCEPT !.pc = "handler", !.added = 0, !.error = e]
    /\ UNCHANGED <<video, frame_rows, extraction_queue, trigger, progress, trainingVars, busVars>>

BatchRows(x) ==
    [i \in 1..x.added |-> [frame_number |-> x.batch_start + i, status |-> "extracted"]]

\* The end of a batch: the rows are committed, then total_frames, then the
\* progress event is published.
ExtractBatchCommit ==
    /\ extraction.pc = "batches"
    /\ extraction.batch_start < extraction.total_frames
    /\ extraction.batch_start + extraction.added = ExtractionBatchEnd(extraction)
    /\ frame_rows' = frame_rows \o BatchRows(extraction)
    /\ video' = [video EXCEPT !.total_frames = ExtractionBatchEnd(extraction)]
    /\ progress' = Append(progress, ProgressEvent(ExtractionBatchEnd(extraction),
                                                   extraction.total_frames, "processing"))
    /\ extraction' = [extraction EXCEPT !.batch_start = ExtractionBatchEnd(extraction),
                                        !.added = 0]
    /\ UNCHANGED <<extraction_queue, trigger, trainingVars, busVars>>

\* After the last batch: the status extracted is committed.
ExtractCommit ==
    /\ extraction.pc = "batches"
    /\ extraction.batch_start >= extraction.total_frames
    /\ video' = [video EXCEPT !.status = "extracted",
                              !.total_frames = extraction.total_frames]
    /\ extraction' = [extraction EXCEPT !.pc = "committed"]
    /\ UNCHANGED <<frame_rows, extraction_queue, trigger, progress, trainingVars, busVars>>

\* The completion is logged and published, and the task returns.
ExtractComplete ==
    /\ extraction.pc = "committed"
    /\ progress' = Append(progress, ProgressEvent(extraction.total_frames,
                                                   extraction.total_frames, "completed"))
    /\ extraction' = [extraction EXCEPT !.pc = "done"]
    /\ UNCHANGED <<video, frame_rows, extraction_queue, trigger, trainingVars, busVars>>

\* The commit of the completion log entry (lines 216-225) raises.
ExtractLogFails ==
    /\ extraction.pc = "committed"
    /\ extraction' = [extraction EXCEPT !.pc = "handler", !.error = "log_error"]
    /\ UNCHANGED <<video, frame_rows, extraction_queue, trigger, progress,
                   trainingVars, busVars>>

\* The except clause of the task: the status failed is committed.
ExtractFailed ==
    /\ extraction.pc = "handler"
    /\ video' = [video EXCEPT !.status = "failed", !.error_message = extraction.error]
    /\ extraction' = [extraction EXCEPT !.pc = "handled"]
    /\ UNCHANGED <<frame_rows, extraction_queue, trigger, progress, trainingVars, busVars>>

\* The failure is logged and the exception raised again.
ExtractRaise ==
    /\ extraction.pc = "handled"
    /\ extraction' = [extraction EXCEPT !.pc = "raised"]
    /\ UNCHANGED <<video, frame_rows, extraction_queue, trigger, progress, trainingVars, busVars>>

\* ------------------------------------------------ main.py (ConnectionManager)
Connections == 1..NumConnections
Sessions == 1..NumSessions
NoSession == 0

Put(d, k, v) == [x \in DOMAIN d \cup {k} |-> IF x = k THEN v ELSE d[x]]

Remove(d, k) == [x \in DOMAIN d \ {k} |-> d[x]]

NoSocket == [state |-> "none", session |-> NoSession]

\* current is the session whose set the for loop is iterating, used the size
\* of that set when its iterator was made, dict_used the size of the dict when
\* the iterator over its values was made, detached whether the session entry
\* of that set was deleted since; steady are the connections registered for
\* the event when the fan-out began and open ever since.
IdleFanout ==
    [pc |-> "idle", session |-> NoSession, all |-> FALSE, current |-> NoSession,
     used |-> 0, dict_used |-> 0, detached |-> FALSE, initial |-> {},
     attempted |-> {}, done |-> {}, disconnected |-> {}, delivered |-> {},
     steady |-> {}, outcome |-> "none"]

\* The connections a fan-out in progress still refers to.
Referenced == IF fanout.pc = "sending"
              THEN fanout.initial \cup fanout.attempted
              ELSE {}

\* ConnectionManager.connect, after websocket.accept().
Connect(c, s) ==
    /\ sockets[c].state = "none"
    /\ c \notin Referenced
    /\ sockets' = [sockets EXCEPT ![c] = [state |-> "open", session |-> s]]
    /\ connections_by_session' =
          Put(connections_by_session, s,
              (IF s \in DOMAIN connections_by_session
               THEN connections_by_session[s] ELSE {}) \cup {c})
    /\ session_by_connection' = Put(session_by_connection, c, s)
    /\ UNCHANGED <<fanout, trainingVars, extractionVars>>

\* The peer goes away: sends to the socket fail from now on.
Close(c) ==
    /\ sockets[c].state = "open"
    /\ sockets' = [sockets EXCEPT ![c].state = "closed"]
    /\ fanout' = IF fanout.pc = "sending"
                 THEN [fanout EXCEPT !.steady = @ \ {c}]
                 ELSE fanout
    /\ UNCHANGED <<connections_by_session, session_by_connection,
                   trainingVars, extractionVars>>

\* ConnectionManager.disconnect: the maps after disconnect(c).
Disconnected(maps, c) ==
    LET cbs == maps[1]
        sbc == maps[2]
    IN  IF c \notin DOMAIN sbc
        THEN maps
        ELSE IF sbc[c] \in DOMAIN cbs /\ cbs[sbc[c]] # {}
        THEN IF cbs[sbc[c]] \ {c} = {}
             THEN <<Remove(cbs, sbc[c]), Remove(sbc, c)>>
             ELSE <<Put(cbs, sbc[c], cbs[sbc[c]] \ {c}), Remove(sbc, c)>>
        ELSE <<cbs, Remove(sbc, c)>>

RECURSIVE DisconnectedAll(_, _)
DisconnectedAll(maps, cs) ==
    IF cs = {} THEN maps
    ELSE LET c == Min(cs) IN DisconnectedAll(Disconnected(maps, c), cs \ {c})

\* websocket_progress on WebSocketDisconnect: manager.disconnect(websocket).
Disconnect(c) ==
    /\ sockets[c].state = "closed"
    /\ LET maps == Disconnected(<<connections_by_session, session_by_connection>>, c)
       IN  /\ connections_by_session' = maps[1]
           /\ session_by_connection' = maps[2]
           /\ fanout' = IF fanout.pc = "sending"
                        THEN [fanout EXCEPT
                                !.detached = @ \/ (/\ fanout.current \in DOMAIN connections_by_session
                                                   /\ fanout.current \notin DOMAIN maps[1]),
                                !.done = @ \cap DOMAIN maps[1],
                                !.steady = @ \ {c}]
                        ELSE fanout
    /\ sockets' = [sockets EXCEPT ![c] = IF c \in Referenced
                                         THEN [@ EXCEPT !.state = "gone"]
                                         ELSE NoSocket]
    /\ UNCHANGED <<trainingVars, extractionVars>>

\* The handler has ended; the WebSocket object is freed once no fan-out holds it.
Forget(c) ==
    /\ sockets[c].state = "gone"
    /\ c \notin Referenced
    /\ c \notin DOMAIN session_by_connection
    /\ sockets' = [sockets EXCEPT ![c] = NoSocket]
    /\ UNCHANGED <<connections_by_session, session_by_connection, fanout,
                   trainingVars, extractionVars>>

\* ---------------------------------------- main.py (broadcast, the fan-out)
\* The set being iterated has another size than when its iterator was made:
\* the next step of the for loop raises RuntimeError.
SetChanged(f) ==
    \/ f.detached
    \/ f.current \notin DOMAIN connections_by_session
    \/ Cardinality(connections_by_session[f.current]) # f.used

DictChanged(f) == Cardinality(DOMAIN connections_by_session) # f.dict_used

Unvisited(f) == connections_by_session[f.current] \ f.attempted

\* await connection.send_json(message): it raises on a socket that is not open.
Send(f, c) ==
    /\ fanout' = IF sockets[c].state = "open"
                 THEN [f EXCEPT !.pc = "sending", !.attempted = @ \cup {c},
                                !.delivered = @ \cup {c}]
                 ELSE [f EXCEPT !.pc = "sending", !.attempted = @ \cup {c},
                                !.disconnected = @ \cup {c}]
    /\ UNCHANGED <<connections_by_session, session_by_connection>>

\* broadcast has returned or raised: its iterators are gone.
Returned(f, outcome) ==
    [IdleFanout EXCEPT !.session = f.session, !.all = f.all,
                       !.attempted = f.attempted, !.disconnected = f.disconnected,
                       !.delivered = f.delivered, !.steady = f.steady,
                       !.outcome = outcome]

\* The RuntimeError leaves broadcast and is logged by redis_subscriber.
Raise(f) ==
    /\ fanout' = Returned(f, "error")
    /\ UNCHANGED <<connections_by_session, session_by_connection>>

\* The loops are over: every connection whose send failed is disconnected.
Prune(f) ==
    LET maps == DisconnectedAll(<<connections_by_session, session_by_connection>>,
                                f.disconnected)
    IN  /\ connections_by_session' = maps[1]
        /\ session_by_connection' = maps[2]
        /\ fanout' = Returned(f, "done")

\* The iterator over the dict's values gives the next session's set, and the
\* iterator over that set its first connection.
NextSession(f) ==
    IF DictChanged(f)
    THEN Raise(f)
    ELSE LET todo == DOMAIN connections_by_session \ (f.done \cup {f.current})
         IN  IF todo = {}
             THEN Prune(f)
             ELSE \E s \in todo : \E c \in connections_by_session[s] :
                    Send([f EXCEPT !.done = IF f.current = NoSession THEN @
                                            ELSE @ \cup {f.current},
                                   !.current = s,
                                   !.used = Cardinality(connections_by_session[s]),
                                   !.initial = connections_by_session[s],
                                   !.detached = FALSE], c)

\* The set is exhausted: broadcast_to_client is done, broadcast goes on.
NextSet(f) == IF f.all THEN NextSession(f) ELSE Prune(f)

\* One turn of the for loop: the next connection of the set, in the order of
\* the hash table. A connection added to the set since the iterator was made
\* may lie behind the iterator or ahead of it.
Advance(f) ==
    IF SetChanged(f)
    THEN Raise(f)
    ELSE \/ \E c \in Unvisited(f) : Send(f, c)
         \/ Unvisited(f) \cap f.initial = {} /\ NextSet(f)

\* redis_subscriber: manager.broadcast(data) up to its first send.
Broadcast(sid) ==
    /\ fanout.pc = "idle"
    /\ IF sid # NoSession
       THEN IF sid \notin DOMAIN connections_by_session
            THEN /\ fanout' = [IdleFanout EXCEPT !.session = sid,
                                                 !.outcome = "no_connections"]
                 /\ UNCHANGED <<connections_by_session, session_by_connection>>
            ELSE \E c \in connections_by_session[sid] :
                   Send([IdleFanout EXCEPT
                           !.session = sid,
                           !.current = sid,
                           !.used = Cardinality(connections_by_session[sid]),
                           !.initial = connections_by_session[sid],
                           !.steady = {x \in connections_by_session[sid] :
                                          sockets[x].state = "open"}], c)
       ELSE NextSession([IdleFanout EXCEPT
                           !.all = TRUE,
                           !.dict_used = Cardinality(DOMAIN connections_by_session),
                           !.steady = {x \in DOMAIN session_by_connection :
                                          sockets[x].state = "open"}])
    /\ UNCHANGED <<sockets, trainingVars, extractionVars>>

\* The send has returned or raised; the loop goes on.
FanoutStep ==
    /\ fanout.pc = "sending"
    /\ Advance(fanout)
    /\ UNCHANGED <<sockets, trainingVars, extractionVars>>

\* ------------------------------------------------------------ specifications
Settings(batch, threshold, concurrency) ==
    [TRAINING_BATCH_SIZE |-> batch, CIRCUIT_BREAKER_THRESHOLD |-> threshold,
     concurrency |-> concurrency]

InitData ==
    /\ jobs = [j \in JobIds |-> AbsentJob]
    /\ embeddings = {}
    /\ qdrant = {}
    /\ delete_calls = {}
    /\ queue = <<>>
    /\ runs = [r \in RunIds |-> FreeRun]
    /\ last_action = [j \in JobIds |-> "none"]
    /\ response = "none"
    /\ alert = NoAlert
    /\ selection = NoSelection
    /\ request = NoRequest
    /\ training_progress = NoProgress
    /\ video = UploadedVideo
    /\ frame_rows = <<>>
    /\ extraction_queue = 0
    /\ extraction = IdleExtraction
    /\ trigger = IdleTrigger
    /\ progress = <<>>
    /\ connections_by_session = <<>>
    /\ session_by_connection = <<>>
    /\ sockets = [c \in Connections |-> NoSocket]
    /\ fanout = IdleFanout

InitRows ==
    /\ InitData
    /\ limits = [jobs |-> MaxJobs, queue |-> MaxQueue]

\* The video is extracted and the user has selected some of its frames.
InitFrames ==
    frames \in [Frames -> {NewFrame, [NewFrame EXCEPT !.status = "selected"]}]

Init ==
    /\ InitRows
    /\ InitFrames
    /\ settings = Settings(TRAINING_BATCH_SIZE, CIRCUIT_BREAKER_THRESHOLD, SOLO_CONCURRENCY)
    /\ cb = IdleBreaker
    /\ single = IdleSingle

InitWide ==
    /\ InitRows
    /\ InitFrames
    /\ settings = Settings(WIDE_BATCH_SIZE, LOW_BREAKER_THRESHOLD, SOLO_CONCURRENCY)
    /\ cb = IdleBreaker
    /\ single = IdleSingle

\* The user has selected the first frame only.
InitOneSelected ==
    frames = [f \in Frames |-> IF f = 1 THEN [NewFrame EXCEPT !.status = "selected"]
                               ELSE NewFrame]

InitPrefork ==
    /\ InitRows
    /\ InitOneSelected
    /\ settings = Settings(TRAINING_BATCH_SIZE, CIRCUIT_BREAKER_THRESHOLD, PREFORK_CONCURRENCY)
    /\ cb = IdleBreaker
    /\ single = IdleSingle

InitOverlap ==
    /\ InitData
    /\ limits = [jobs |-> OverlapMaxJobs, queue |-> MaxQueue]
    /\ InitOneSelected
    /\ settings = Settings(TRAINING_BATCH_SIZE, CIRCUIT_BREAKER_THRESHOLD, PREFORK_CONCURRENCY)
    /\ cb = IdleBreaker
    /\ single = IdleSingle

\* Nothing is selected yet; the user curates the frames while jobs run.
InitCuration ==
    /\ InitData
    /\ limits = [jobs |-> CurationMaxJobs, queue |-> MaxQueue]
    /\ frames = [f \in Frames |-> NewFrame]
    /\ settings = Settings(TRAINING_BATCH_SIZE, CIRCUIT_BREAKER_THRESHOLD, SOLO_CONCURRENCY)
    /\ cb = IdleBreaker
    /\ single = IdleSingle

InitAudit ==
    /\ InitData
    /\ limits = [jobs |-> AuditMaxJobs, queue |-> MaxQueue]
    /\ InitOneSelected
    /\ settings = Settings(TRAINING_BATCH_SIZE, CIRCUIT_BREAKER_THRESHOLD, SOLO_CONCURRENCY)
    /\ cb = IdleBreaker
    /\ single = IdleSingle

InitRequests ==
    /\ InitData
    /\ limits = [jobs |-> RequestsMaxJobs, queue |-> RequestsMaxQueue]
    /\ InitFrames
    /\ settings = Settings(TRAINING_BATCH_SIZE, CIRCUIT_BREAKER_THRESHOLD, SOLO_CONCURRENCY)
    /\ cb = IdleBreaker
    /\ single = IdleSingle

\* A selected frame is handed to a worker; a replica row of an earlier
\* training may have been left behind.
InitSingle ==
    /\ InitRows
    /\ frames = [f \in Frames |-> NewFrame]
    /\ settings = Settings(TRAINING_BATCH_SIZE, CIRCUIT_BREAKER_THRESHOLD, SOLO_CONCURRENCY)
    /\ cb = IdleBreaker
    /\ \E replica \in BOOLEAN : single = [IdleSingle EXCEPT !.pc = "load", !.replica = replica]

\* The same loop, also over the frames of scenario A in batches of the
\* default size.
InitScenario ==
    /\ InitRows
    /\ frames = [f \in Frames |-> NewFrame]
    /\ settings = Settings(TRAINING_BATCH_SIZE, CIRCUIT_BREAKER_THRESHOLD, SOLO_CONCURRENCY)
    /\ \E rs \in ResultSeqs \cup {[i \in 1..ScenarioFrames |-> "ok"]},
          n \in (1..MaxResults) \cup {DEFAULT_BATCH_SIZE} :
         cb = [IdleBreaker EXCEPT !.pc = "loop", !.results = rs, !.size = n]
    /\ single = IdleSingle

InitBreaker ==
    /\ InitRows
    /\ frames = [f \in Frames |-> NewFrame]
    /\ settings = Settings(TRAINING_BATCH_SIZE, CIRCUIT_BREAKER_THRESHOLD, SOLO_CONCURRENCY)
    /\ \E rs \in ResultSeqs, n \in 1..MaxResults :
         cb = [IdleBreaker EXCEPT !.pc = "loop", !.results = rs, !.size = n]
    /\ single = IdleSingle

Tasks ==
    \/ \E r \in RunIds, j \in JobIds : RunEnter(r, j)
    \/ \E r \in RunIds : RunStart(r)
    \/ \E r \in RunIds : RunCollectionReady(r)
    \/ \E r \in RunIds : RunCollectionFails(r)
    \/ \E r \in RunIds : RunBatchBegin(r)
    \/ \E r \in RunIds, f \in Frames : WorkerStart(r, f)
    \/ \E r \in RunIds, f \in Frames : WorkerUpsert(r, f)
    \/ \E r \in RunIds, f \in Frames : WorkerFail(r, f)
    \/ \E r \in RunIds : RunBatchEnd(r)
    \/ \E r \in RunIds : RunFinish(r)
    \/ \E j \in JobIds, deleted \in SUBSET (1..MaxPoints) : RollbackTrainingTask(j, deleted)

\* Requests that are accepted; a rejected request changes no row.
Next ==
    \/ \E ids \in SUBSET Frames : ExecuteAccepted(ids) /\ ExecuteTraining(ids)
    \/ \E j \in JobIds : PauseAccepted(j) /\ PauseTrainingJob(j)
    \/ \E j \in JobIds : ResumeAccepted(j) /\ ResumeTraining(j)
    \/ \E j \in JobIds : RollbackAccepted(j) /\ RollbackTraining(j)
    \/ Tasks

\* The same, with the rejected resume and rollback requests answered too.
NextRequests ==
    \/ \E ids \in SUBSET Frames : ExecuteAccepted(ids) /\ ExecuteTraining(ids)
    \/ \E j \in JobIds : PauseAccepted(j) /\ PauseTrainingJob(j)
    \/ \E j \in JobIds : ResumeTraining(j)
    \/ \E j \in JobIds : RollbackTraining(j)
    \/ Tasks

\* Jobs started, paused and rolled back, none resumed.
NextRace ==
    \/ \E ids \in SUBSET Frames : ExecuteAccepted(ids) /\ ExecuteTraining(ids)
    \/ \E j \in JobIds : PauseAccepted(j) /\ PauseTrainingJob(j)
    \/ \E j \in JobIds : RollbackAccepted(j) /\ RollbackTraining(j)
    \/ Tasks

\* The steps of train_frames_task, with the terminal commit and its log
\* entry apart and with every way into the except clause.
TrainSteps ==
    \/ \E r \in RunIds, j \in JobIds : RunEnter(r, j)
    \/ \E r \in RunIds : RunStart(r)
    \/ \E r \in RunIds : RunCollectionReady(r)
    \/ \E r \in RunIds : RunCollectionFails(r)
    \/ \E r \in RunIds : RunHandlerFails(r)
    \/ \E r \in RunIds : RunBatchBegin(r)
    \/ \E r \in RunIds, f \in Frames : WorkerStart(r, f)
    \/ \E r \in RunIds, f \in Frames : WorkerUpsert(r, f)
    \/ \E r \in RunIds, f \in Frames : WorkerFail(r, f)
    \/ \E r \in RunIds : RunBatchEnd(r)
    \/ \E r \in RunIds : RunCommitTerminal(r)
    \/ \E r \in RunIds : RunLogged(r)
    \/ \E r \in RunIds : RunLogFails(r)

\* One job started and paused; its task runs to the end.
NextTermination ==
    \/ \E ids \in SUBSET Frames : ExecuteAccepted(ids) /\ ExecuteTraining(ids)
    \/ \E j \in JobIds : PauseAccepted(j) /\ PauseTrainingJob(j)
    \/ TrainSteps

\* lines 156-181 of tasks/training.py: a batch of the job is with the pool.
BatchInFlight(j) ==
    \E r \in RunIds : runs[r].job_id = j /\ runs[r].pc = "batch"

\* Every pause is committed while a batch of the job is in flight.
NextPause ==
    \/ \E ids \in SUBSET Frames : ExecuteAccepted(ids) /\ ExecuteTraining(ids)
    \/ \E j \in JobIds : PauseAccepted(j) /\ BatchInFlight(j) /\ PauseTrainingJob(j)
    \/ \E j \in JobIds : ResumeAccepted(j) /\ ResumeTraining(j)
    \/ \E j \in JobIds : RollbackAccepted(j) /\ RollbackTraining(j)
    \/ Tasks

\* Jobs started and rolled back while the frames are curated.
NextCuration ==
    \/ \E ids \in SUBSET Frames : ExecuteAccepted(ids) /\ ExecuteTraining(ids)
    \/ \E j \in JobIds : RollbackAccepted(j) /\ RollbackTraining(j)
    \/ \E ids \in SUBSET Frames, action \in {"select", "deselect"} :
          UpdateFrameSelection(ids, action)
    \/ \E f \in Frames : DeleteFrame(f)
    \/ Tasks

NextBreaker == BreakerBatch \/ BreakerFinish

\* One frame handed to a worker; it can be deleted for good meanwhile.
NextSingle ==
    \/ SingleLoad
    \/ \E ok \in BOOLEAN : SingleCompute(ok)
    \/ \E ok \in BOOLEAN : SingleUpsert(ok)
    \/ \E ok \in BOOLEAN : SinglePersist(ok)
    \/ SingleRevert
    \/ DeleteFramePermanent

\* One training job and one extraction, where the writes to processing_logs
\* can fail.
NextAudit ==
    \/ \E ids \in SUBSET Frames : ExecuteAccepted(ids) /\ ExecuteTraining(ids)
    \/ \E r \in RunIds, j \in JobIds : RunEnter(r, j)
    \/ \E r \in RunIds : RunStart(r)
    \/ \E r \in RunIds : RunCollectionReady(r)
    \/ \E r \in RunIds : RunBatchBegin(r)
    \/ \E r \in RunIds, f \in Frames : WorkerStart(r, f)
    \/ \E r \in RunIds, f \in Frames : WorkerUpsert(r, f)
    \/ \E r \in RunIds, f \in Frames : WorkerFail(r, f)
    \/ \E r \in RunIds : RunBatchEnd(r)
    \/ \E r \in RunIds : RunCommitTerminal(r)
    \/ \E r \in RunIds : RunLogged(r)
    \/ \E r \in RunIds : RunLogFails(r)
    \/ TriggerExtraction
    \/ TriggerCommit
    \/ ExtractStart
    \/ ExtractFrame
    \/ ExtractBatchCommit
    \/ ExtractCommit
    \/ ExtractComplete
    \/ ExtractLogFails
    \/ ExtractFailed
    \/ ExtractRaise

\* Clients come and go while events are fanned out.
NextBus ==
    \/ \E c \in Connections, s \in Sessions : Connect(c, s)
    \/ \E c \in Connections : Close(c)
    \/ \E c \in Connections : Disconnect(c)
    \/ \E c \in Connections : Forget(c)
    \/ \E sid \in Sessions \cup {NoSession} : Broadcast(sid)
    \/ FanoutStep

\* An uploaded video, extraction requested and run.
NextExtraction ==
    \/ TriggerExtraction
    \/ TriggerCommit
    \/ ExtractStart
    \/ ExtractFrame
    \/ ExtractBatchCommit
    \/ ExtractCommit
    \/ ExtractComplete
    \/ ExtractFailed
    \/ ExtractRaise

\* Solo pool, batches of one frame.
Spec == Init /\ [][Next]_vars

\* The batch loop and its events, scenario A included.
SpecScenario == InitScenario /\ [][NextBreaker]_vars

\* The attempts of one worker on one frame.
SpecSingle == InitSingle /\ [][NextSingle]_vars

\* Solo pool, batches of two frames, breaker threshold one.
SpecWide == InitWide /\ [][Next]_vars

\* Solo pool, one job, paused only in the middle of a batch.
SpecPause == InitRequests /\ [][NextPause]_vars

\* Prefork pool: two runs at once.
SpecRace == InitPrefork /\ [][NextRace]_vars

\* Prefork pool, one job, resumed while its run is still going.
SpecOverlap == InitOverlap /\ [][Next]_vars

\* Solo pool, one job, with selection and soft delete of frames.
SpecCuration == InitCuration /\ [][NextCuration]_vars

\* Solo pool, one job, rejected requests visible in response.
SpecRequests == InitRequests /\ [][NextRequests]_vars

\* The batch loop alone, over every result sequence and batch size.
SpecBreaker == InitBreaker /\ [][NextBreaker]_vars

\* Solo pool, one job on one selected frame, and one extraction; audit
\* writes can fail.
SpecAudit == InitAudit /\ [][NextAudit]_vars

\* Solo pool, one job: every call the task makes returns or fails, so a step
\* of the task that can be taken is taken.
SpecTermination ==
    InitRequests /\ [][NextTermination]_vars /\ WF_vars(TrainSteps)

\* The WebSocket bus: connections, disconnections and fan-outs interleaved.
SpecBus == InitCuration /\ [][NextBus]_vars

\* The extraction of one video, requested over the API.
SpecExtraction == InitCuration /\ [][NextExtraction]_vars

\* ------------------------------------------------------------------ claims
\* C1: for every TrainingJob, processed_frames + failed_frames <= total_frames
\* in every reachable state, across start, batch commits, pauses and resume.
C1_CountersWithinTotal ==
    \A j \in JobIds :
        jobs[j].processed_frames + jobs[j].failed_frames <= jobs[j].total_frames

\* C2: a TrainingJob whose status is completed, failed or rolled_back has
\* processed_frames + failed_frames = total_frames, on every path to it.
C2_TerminalCountersEqualTotal ==
    \A j \in JobIds :
        jobs[j].status \in {"completed", "failed", "rolled_back"}
            => jobs[j].processed_frames + jobs[j].failed_frames = jobs[j].total_frames

LegalEdges ==
    {<<"pending", "processing">>, <<"processing", "completed">>,
     <<"processing", "failed">>, <<"processing", "paused">>,
     <<"paused", "pending">>, <<"completed", "rolled_back">>,
     <<"failed", "rolled_back">>}

\* C3: every change of the status of an existing TrainingJob follows one of the
\* seven edges of the job state machine.
C3_OnlyLegalEdges ==
    [][\A j \in JobIds :
          (jobs[j].status # "absent" /\ jobs'[j].status # jobs[j].status)
              => <<jobs[j].status, jobs'[j].status>> \in LegalEdges]_vars

TrainTaskTaken(j) ==
    /\ Len(queue') < Len(queue)
    /\ Head(queue) = [task |-> "train", job_id |-> j]

FailedIn(results, from, to) ==
    Cardinality({i \in from..to : i <= Len(results) /\ results[i] = "failed"})

\* The running count after the k-th batch of the given size.
RECURSIVE RunningCount(_, _, _)
RunningCount(results, size, k) ==
    IF k = 0 THEN 0
    ELSE LET failed == FailedIn(results, (k - 1) * size + 1, k * size)
         IN  IF failed = 0 THEN 0
             ELSE RunningCount(results, size, k - 1) + failed

\* Batches the loop has been through when it is at batch_start.
BatchesDone == (cb.batch_start + cb.size - 1) \div cb.size

CountReached(results, size, batches) ==
    \E k \in 1..batches :
        RunningCount(results, size, k) >= settings.CIRCUIT_BREAKER_THRESHOLD

FailuresSoFar(r) == runs[r].consecutive_failures + BatchFailed(r)

\* C6: once the consecutive-failure count has reached the threshold inside a
\* batch, no frame of the batch that is still waiting is marked training.
C6_NoAttemptAfterThreshold ==
    [][\A r \in RunIds, f \in Frames :
          ( /\ runs[r].pc = "batch"
            /\ runs[r].work[f] = "queued"
            /\ FailuresSoFar(r) >= settings.CIRCUIT_BREAKER_THRESHOLD )
          => /\ runs'[r].work[f] # "training"
             /\ frames'[f].status = "selected"]_vars

\* C7: a job paused by an accepted pause request stays paused until resume
\* puts it back to pending; the run in flight never completes or fails it.
C7_PausedUntilResume ==
    [][\A j \in JobIds :
          (jobs[j].status = "paused" /\ last_action[j] = "training_job_paused")
          => \/ jobs'[j].status = "paused"
             \/ /\ jobs'[j].status = "pending"
                /\ last_action'[j] = "training_resumed"]_vars

\* A train task for an existing job joins the queue.
TrainDispatched(j) ==
    /\ jobs[j].status # "absent"
    /\ Len(queue') > Len(queue)
    /\ queue'[Len(queue')] = [task |-> "train", job_id |-> j]

\* C8: resume is accepted only from paused; a rejected resume changes no job
\* row and dispatches nothing, and a run is dispatched for an existing job
\* only when that job is paused.
C8_ResumeOnlyFromPaused ==
    [][ /\ (response' = "resume_rejected" /\ response # "resume_rejected")
            => UNCHANGED <<frames, jobs, embeddings, qdrant, delete_calls,
                           queue, runs, last_action>>
        /\ \A j \in JobIds :
              TrainDispatched(j)
                  => /\ jobs[j].status = "paused"
                     /\ response' = "accepted"
        /\ \A j \in JobIds :
              (jobs[j].status \in JobStatus \ {"paused"} /\ jobs'[j].status = "pending")
                  => jobs[j].status = "pending" ]_vars

C8_Witness ==
    /\ response = "resume_rejected"
    /\ \E j \in JobIds : jobs[j].status \in {"completed", "failed", "rolled_back"}
    /\ queue = <<>>

\* The rollback task of job j joins the queue / is taken off it.
RollbackDispatched(j) ==
    /\ Len(queue') > Len(queue)
    /\ queue'[Len(queue')] = [task |-> "rollback", job_id |-> j]

RollbackTaskTaken(j) ==
    /\ Len(queue') < Len(queue)
    /\ Head(queue) = [task |-> "rollback", job_id |-> j]

\* C9: a rollback of a job that is neither completed nor failed changes
\* nothing: the request is rejected without dispatching, and a rollback task
\* that finds such a job leaves jobs, frames, replicas and index as they are.
C9_RollbackElsewhereIsNoOp ==
    [][ /\ (response' = "rollback_rejected" /\ response # "rollback_rejected")
            => UNCHANGED <<frames, jobs, embeddings, qdrant, delete_calls,
                           queue, runs, last_action>>
        /\ \A j \in JobIds :
              RollbackDispatched(j) => jobs[j].status \in {"completed", "failed"}
        /\ \A j \in JobIds :
              (RollbackTaskTaken(j) /\ jobs[j].status \notin {"completed", "failed"})
                  => UNCHANGED <<frames, jobs, embeddings, qdrant, delete_calls,
                                 runs, last_action>> ]_vars

C9_Witness ==
    /\ response = "rollback_rejected"
    /\ \E j \in JobIds : jobs[j].status = "rolled_back" /\ jobs[j].rolled_back_at
    /\ delete_calls # {}
    /\ queue = <<>>

\* Frames trained for job j that hold an index identifier.
TrainedFor(j) ==
    {f \in Frames : /\ frames[f].training_job_id = j
                    /\ frames[f].status = "trained"
                    /\ frames[f].qdrant_point_id # NoPoint}

\* C10: the rollback task of a completed or failed job J with k frames trained
\* for J asks the index to delete each of their k identifiers, leaves the k
\* frames selected with identifier and job link cleared and without replica,
\* and leaves J rolled_back with its rollback timestamp set.
C10_RollbackReverts ==
    [][\A j \in JobIds :
          ( /\ RollbackTaskTaken(j)
            /\ jobs[j].status \in {"completed", "failed"}
            /\ TrainedFor(j) # {} )
          => /\ {frames[f].qdrant_point_id : f \in TrainedFor(j)} \subseteq delete_calls'
             /\ \A f \in TrainedFor(j) :
                   /\ frames'[f].status = "selected"
                   /\ frames'[f].qdrant_point_id = NoPoint
                   /\ frames'[f].training_job_id = NoJob
                   /\ f \notin embeddings'
             /\ jobs'[j].status = "rolled_back"
             /\ jobs'[j].rolled_back_at]_vars

C10_Witness ==
    \E j \in JobIds :
        /\ jobs[j].status = "rolled_back"
        /\ jobs[j].rolled_back_at
        /\ last_action[j] = "training_rolled_back"
        /\ Cardinality(delete_calls) = NumFrames
        /\ embeddings = {}
        /\ \A f \in Frames : /\ frames[f].status = "selected"
                             /\ frames[f].qdrant_point_id = NoPoint
                             /\ frames[f].training_job_id = NoJob

\* Rolling back leaves frame f as it is: row, replica and index vector.
FrameUntouched(f) ==
    /\ frames'[f] = frames[f]
    /\ (f \in embeddings') = (f \in embeddings)
    /\ (frames[f].qdrant_point_id \in qdrant') = (frames[f].qdrant_point_id \in qdrant)

\* Frames trained by another job than j.
TrainedByOther(j) ==
    {f \in Frames : /\ frames[f].status = "trained"
                    /\ frames[f].training_job_id \notin {j, NoJob}}

HasLinkedFrame(j) ==
    \E f \in Frames : /\ frames[f].training_job_id = j
                      /\ frames[f].status \in {"trained", "training"}
                      /\ frames[f].qdrant_point_id # NoPoint

C12_TrainedNeverRedispatched ==
    [][\A f \in Frames :
          frames[f].status = "trained" => frames'[f].status # "training"]_vars

\* Run r leaves the batch loop with every batch done.
FinishStep(r) ==
    /\ runs[r].pc = "loop"
    /\ runs[r].batch_start >= Len(runs[r].frames)
    /\ runs'[r].pc = "free"

\* C13: a run that finishes all its batches leaves the job with a status that
\* follows from its counters: nothing processed and some failed: failed;
\* some processed and some failed: completed with the warning message, and a
\* failure alert exactly when more than half of total_frames failed; no
\* failure: completed without message.
C13_TerminalResolution ==
    [][\A r \in RunIds :
          FinishStep(r)
          => LET job == jobs'[runs[r].job_id]
                 p == job.processed_frames
                 f == job.failed_frames
                 t == job.total_frames
             IN  /\ (p = 0 /\ f > 0) => job.status = "failed"
                 /\ (p > 0 /\ f > 0)
                       => /\ job.status = "completed"
                          /\ job.error_message = [kind |-> "partial", failed |-> f, total |-> t]
                          /\ (alert' # NoAlert) <=> (2 * f > t)
                          /\ alert' # NoAlert
                                => alert' = [kind |-> "training_failure",
                                             job_id |-> runs[r].job_id]
                 /\ f = 0 => /\ job.status = "completed"
                             /\ job.error_message.kind = "none"
                             /\ alert' = NoAlert
                 /\ job.completed_at]_vars

\* C14: a job that is completed with failed_frames > 0 carries the warning
\* message "<failed_frames> out of <total_frames> frames failed".
C14_CompletedWithFailuresWarns ==
    \A j \in JobIds :
        (jobs[j].status = "completed" /\ jobs[j].failed_frames > 0)
            => jobs[j].error_message =
                  [kind |-> "partial", failed |-> jobs[j].failed_frames,
                   total |-> jobs[j].total_frames]

\* Run r passes the barrier of its batch.
BarrierStep(r) == runs[r].pc = "batch" /\ runs'[r].pc # "batch"

\* C15: a frame whose attempts all failed is, when the barrier of its batch is
\* passed, selected with last_error set, and counted in failed_frames.
C15_ExhaustedFrameKept ==
    [][\A r \in RunIds :
          BarrierStep(r)
          => LET exhausted == {f \in Frames : runs[r].work[f] = "failed"} IN
             /\ \A f \in exhausted : /\ frames'[f].status = "selected"
                                     /\ frames'[f].last_error
             /\ jobs'[runs[r].job_id].failed_frames
                   >= jobs[runs[r].job_id].failed_frames + Cardinality(exhausted)]_vars

\* The frames named by the request of this step that are trained, deleted or
\* in training.
Offending == {f \in selection'.frame_ids :
                 frames[f].status \in {"trained", "deleted", "training"}}

C17_TrainingLifecycle ==
    [][\A f \in Frames :
          /\ (frames[f].status # "training" /\ frames'[f].status = "training")
                => (frames[f].status = "selected" /\ ~frames[f].deleted_at)
          /\ (frames[f].status = "training" /\ frames'[f].status # "training")
                => frames'[f].status \in {"trained", "selected"}]_vars

\* C18: once a Video is extracted or failed its status never returns to
\* extracting or uploaded, however the trigger request and the run interleave.
C18_TerminalVideoStays ==
    [][video.status \in {"extracted", "failed"}
          => video'.status \notin {"extracting", "uploaded"}]_vars

\* The frame numbers 1..n, each on exactly one row with status extracted.
RowsAre(rows, n) ==
    /\ Len(rows) = n
    /\ \A k \in 1..n : Cardinality({i \in 1..Len(rows) : rows[i].frame_number = k}) = 1
    /\ \A i \in 1..Len(rows) : rows[i].status = "extracted"

\* C19: when a run over N images returns successfully there are exactly the
\* rows 1..N, all extracted, the Video is extracted with total_frames = N, and
\* the completed event (N of N) is published after the extracted commit.
C19_SuccessfulRun ==
    [][(extraction.pc # "done" /\ extraction'.pc = "done")
          => /\ RowsAre(frame_rows', extraction.total_frames)
             /\ video'.status = "extracted"
             /\ video'.total_frames = extraction.total_frames
             /\ extraction.pc = "committed"
             /\ progress' = Append(progress, ProgressEvent(extraction.total_frames,
                                       extraction.total_frames, "completed"))]_vars

\* C20: when a run that met an exception in a batch has raised it again, the
\* Video is failed with the exception text, the rows are those of the batches
\* before it, and total_frames is the number of rows.
C20_FailedRun ==
    [][(extraction.pc # "raised" /\ extraction'.pc = "raised")
          => /\ video'.status = "failed"
             /\ video'.error_message = extraction.error
             /\ extraction.error \in ExceptionTexts
             /\ RowsAre(frame_rows', extraction.batch_start)
             /\ video'.total_frames = Len(frame_rows')]_vars

\* ---- the WebSocket bus
\* A manager.broadcast call returns (or raises) in this step.
FanoutReturns == fanout'.pc = "idle" /\ fanout' # fanout

\* The connections that are sent the event in this step.
SentNow == IF fanout.pc = "sending" THEN fanout'.delivered \ fanout.delivered
           ELSE IF fanout' # fanout THEN fanout'.delivered
           ELSE {}

\* C21: an event with a session id is sent only to connections registered
\* under that session; an event without one has been sent, when the broadcast
\* returns, to every connection registered and open throughout.
C21_Addressing ==
    [][/\ \A c \in SentNow :
             fanout'.session # NoSession
                => /\ c \in DOMAIN session_by_connection
                   /\ session_by_connection[c] = fanout'.session
       /\ (FanoutReturns /\ fanout'.all) => fanout'.steady \subseteq fanout'.delivered]_vars

\* C22: when the fan-out of an event to a session returns, every connection
\* registered under the session and open throughout has been sent the event.
C22_SteadyConnectionsReceive ==
    [][(FanoutReturns /\ fanout'.session # NoSession)
          => fanout'.steady \subseteq fanout'.delivered]_vars

\* The two maps describe the same registrations.
RegistryConsistent ==
    /\ \A s \in DOMAIN connections_by_session : \A c \in connections_by_session[s] :
          c \in DOMAIN session_by_connection /\ session_by_connection[c] = s
    /\ \A c \in DOMAIN session_by_connection :
          /\ session_by_connection[c] \in DOMAIN connections_by_session
          /\ c \in connections_by_session[session_by_connection[c]]

NoEmptySession == \A s \in DOMAIN connections_by_session : connections_by_session[s] # {}

AllDisconnected == \A c \in Connections : sockets[c].state \in {"none", "gone"}

EmptyWhenAllDisconnected ==
    AllDisconnected => (DOMAIN connections_by_session = {} /\ DOMAIN session_by_connection = {})

\* C23: the two maps agree, no session entry is empty, the maps are empty once
\* every connection has disconnected, and when a broadcast returns no
\* connection whose send failed in it is still registered.
C23_RegistryLeakFree ==
    [][/\ RegistryConsistent'
       /\ NoEmptySession'
       /\ EmptyWhenAllDisconnected'
       /\ FanoutReturns => fanout'.disconnected \cap DOMAIN session_by_connection' = {}]_vars

\* C24: a failing audit write changes nothing: the job whose terminal
\* status is committed keeps it, the video committed as extracted keeps it,
\* and the run does not go through its failure path.
C24_AuditFailureHarmless ==
    [][/\ \A r \in RunIds :
            (runs[r].pc = "logging" /\ runs'[r].pc # "logging")
               => jobs'[runs[r].job_id].status = jobs[runs[r].job_id].status
       /\ extraction.pc = "committed" => extraction'.pc \in {"committed", "done"}
       /\ (extraction.pc = "handler" /\ video.status = "extracted")
               => video'.status = "extracted"]_vars

\* C25: the job started with an explicit list of frame ids has total_frames
\* equal to the number of listed frames, and no frame outside the list is
\* linked to it.
C25_OnlyListedFrames ==
    (request.job_id # NoJob /\ request.frame_ids # {})
       => /\ jobs[request.job_id].total_frames = Cardinality(request.frame_ids)
          /\ \A f \in Frames \ request.frame_ids :
                frames[f].training_job_id # request.job_id

\* C26: a run entered when the video has no selected, undeleted frame
\* completes its job at once with total_frames = 0 and a completion
\* timestamp, and modifies no frame.
C26_NothingSelectedCompletes ==
    [][\A j \in JobIds :
          (TrainTaskTaken(j) /\ SelectedFrames = {})
             => /\ jobs'[j].status = "completed"
                /\ jobs'[j].completed_at
                /\ jobs'[j].total_frames = 0
                /\ frames' = frames]_vars

\* C27: a run begins a batch for its job only when no other run is
\* executing for the same job.
C27_OneRunPerJob ==
    [][\A r \in RunIds :
          (runs[r].pc = "loop" /\ runs'[r].pc = "batch")
             => \A q \in RunIds \ {r} : runs[q].job_id # runs[r].job_id]_vars

\* Run r ends its batch with the breaker open.
BreakerStep(r) ==
    /\ runs[r].pc = "batch"
    /\ runs'[r].pc = "free"
    /\ alert' = [kind |-> "circuit_breaker", job_id |-> runs[r].job_id]

\* The frames of the batches of run r after the one in hand.
LaterFrames(r) ==
    {runs[r].frames[i] : i \in (BatchEnd(r) + 1)..Len(runs[r].frames)}

\* C28: the step in which the breaker opens pauses the job with the reason in
\* its error message, ends the run and changes no frame, the frames of the
\* later batches being selected; only the frames of a batch in hand are ever
\* marked training; and the job then stays paused until a resume request
\* puts it back to pending.
C28_BreakerStopsRun ==
    [][/\ \A r \in RunIds :
            BreakerStep(r)
               => /\ jobs'[runs[r].job_id].status = "paused"
                  /\ jobs'[runs[r].job_id].error_message.kind = "circuit_breaker"
                  /\ frames' = frames
                  /\ \A f \in LaterFrames(r) : frames'[f].status = "selected"
       /\ \A f \in Frames :
            (frames'[f].status = "training" /\ frames[f].status # "training")
               => \E r \in RunIds : runs[r].pc = "batch" /\ f \in BatchFrames(r)
       /\ \A j \in JobIds :
            (jobs[j].status = "paused" /\ last_action[j] = "circuit_breaker_triggered")
               => \/ jobs'[j].status = "paused"
                  \/ /\ jobs'[j].status = "pending"
                     /\ last_action'[j] = "training_resumed"]_vars

LastCleanBatch ==
    LET clean == {k \in 1..BatchesDone :
                    FailedIn(cb.results, (k - 1) * cb.size + 1,
                             Min({k * cb.size, cb.batch_start})) = 0}
    IN  IF clean = {} THEN 0 ELSE CHOOSE k \in clean : \A m \in clean : m <= k

\* The failures of the batches gone through since that batch.
FailedSinceClean ==
    FailedIn(cb.results, LastCleanBatch * cb.size + 1, cb.batch_start)

C30_NoOrphanVectors ==
    \A p \in qdrant :
        Cardinality({f \in Frames : frames[f].qdrant_point_id = p}) = 1

\* With one job and a solo pool, where every pause is committed in the middle
\* of a batch (SpecPause): run r has had such a pause. The row is still
\* paused, or it was resumed since and the task of that resume waits in the
\* queue behind the run.
PausedInFlight(r) ==
    /\ runs[r].pc # "free"
    /\ \/ jobs[runs[r].job_id].status = "paused"
       \/ \E i \in 1..Len(queue) : queue[i] = [task |-> "train", job_id |-> runs[r].job_id]

CountedFrames(job) == job.processed_frames + job.failed_frames

\* C31, first half: the batch in flight at the pause is finished, its frames
\* end trained or selected and the job's counters grow by its size.
C31_BatchCompleted ==
    \A r \in RunIds :
        (PausedInFlight(r) /\ runs[r].pc = "batch" /\ runs'[r].pc # "batch")
           => /\ \A f \in BatchFrames(r) : frames'[f].status \in {"trained", "selected"}
              /\ CountedFrames(jobs'[runs[r].job_id])
                   = CountedFrames(jobs[runs[r].job_id]) + Cardinality(BatchFrames(r))

\* C31, second half: the run hands no further batch to the pool.
C31_NoNextBatch ==
    \A r \in RunIds :
        (runs[r].pc = "loop" /\ runs'[r].pc = "batch") => ~PausedInFlight(r)

\* C31: a pause committed while a batch is in flight lets that batch finish
\* and be counted, and the run starts no batch after it.
C31_PauseAfterBatch ==
    [][C31_BatchCompleted /\ C31_NoNextBatch]_vars

\* The counters of job j are written in this step.
CountersWritten(j) ==
    \/ jobs'[j].processed_frames # jobs[j].processed_frames
    \/ jobs'[j].failed_frames # jobs[j].failed_frames

\* Run r passes the barrier of its batch in this step.
BarrierPassed(r) ==
    /\ runs[r].pc = "batch"
    /\ runs'[r].pc # "batch"
    /\ \A f \in BatchFrames(r) : runs[r].work[f] \in {"ok", "failed"}

\* C32: the counters of a job change only when a run of the job passes the
\* barrier of a batch, and passing it adds the successes to processed_frames
\* and the failures to failed_frames, the size of the batch in all.
C32_CountedOnceAtBarrier ==
    [][/\ \A j \in JobIds :
             CountersWritten(j) => \E r \in RunIds : runs[r].job_id = j /\ BarrierPassed(r)
       /\ \A r \in RunIds :
             (runs[r].pc = "batch" /\ runs'[r].pc # "batch")
                => LET j == runs[r].job_id IN
                   /\ BarrierPassed(r)
                   /\ BatchSuccess(r) + BatchFailed(r) = Cardinality(BatchFrames(r))
                   /\ jobs'[j].processed_frames = jobs[j].processed_frames + BatchSuccess(r)
                   /\ jobs'[j].failed_frames = jobs[j].failed_frames + BatchFailed(r)]_vars

AllFailed(attempts) == \A i \in 1..Len(attempts) : attempts[i] = "failed"

\* What C33 says of the attempts made so far: no more than the limit, and
\* each one but the last has failed.
AttemptsInOrder ==
    /\ Len(single.attempts) <= TRAINING_RETRY_ATTEMPTS
    /\ \A i \in 1..(Len(single.attempts) - 1) : single.attempts[i] = "failed"
    /\ single.result = "ok"
          => (single.attempts # <<>> /\ single.attempts[Len(single.attempts)] = "ok")

Exhausted ==
    Len(single.attempts) = TRAINING_RETRY_ATTEMPTS /\ AllFailed(single.attempts)

\* C33, the claim as stated: at most three attempts, one after a failed one
\* only, and the frame reported failed only after three failed attempts.
C33_ThreeAttempts ==
    /\ AttemptsInOrder
    /\ single.result = "failed" => Exhausted

\* C33, as the code does it: the frame is reported failed after three failed
\* attempts or, before that, as soon as its row is no longer found.
C33_ThreeAttemptsOrMissing ==
    /\ AttemptsInOrder
    /\ single.result = "failed"
          => \/ Exhausted
             \/ single.row = "missing" /\ AllFailed(single.attempts)
    /\ (single.pc = "returned" /\ Exhausted /\ single.row # "missing")
          => (single.result = "failed" /\ single.row = "selected")

C33_Witness ==
    /\ single.pc = "returned"
    /\ single.result = "failed"
    /\ single.row = "selected"
    /\ single.attempts = <<"failed", "failed", "failed">>
    /\ single.upserts = 2

\* The event the claims expect after the batch of run r.
BatchEvent(r) ==
    TrainingProgress(runs[r].job_id, BatchEnd(r), Len(runs[r].frames),
                     Percent(BatchEnd(r), Len(runs[r].frames)), "processing")

\* C34: the step that ends a batch, whichever batch it is, commits the
\* counters and publishes the processing event of that batch (current = frames
\* dispatched so far, total = frames of the run).
C34_EventAfterEveryBatch ==
    [][\A r \in RunIds :
          (runs[r].pc = "batch" /\ runs'[r].pc # "batch")
             => /\ training_progress' = BatchEvent(r)
                /\ CountedFrames(jobs'[runs[r].job_id])
                     = CountedFrames(runs[r].job) + Cardinality(BatchFrames(r))]_vars

\* Job j is moved to completed or failed in this step.
Finalised(j) ==
    /\ jobs'[j].status \in {"completed", "failed"}
    /\ jobs'[j].status # jobs[j].status

\* C35: whatever step moves a job to completed or failed stamps completed_at
\* and publishes the final event: percent 100 and the final status.
C35_FinalEventOnEveryPath ==
    [][\A j \in JobIds :
          Finalised(j)
             => /\ jobs'[j].completed_at
                /\ training_progress'.job_id = j
                /\ training_progress'.percent = FinalPercent
                /\ training_progress'.status = jobs'[j].status]_vars

\* The event published in this step is within its bounds.
EventInRange ==
    /\ 0 <= training_progress'.current
    /\ training_progress'.current <= training_progress'.total
    /\ training_progress'.percent <= FinalPercent

\* Run r publishes in this step. The current of its previous event is its
\* batch_start: every batch after which the loop goes on publishes its end.
EventNotBelowPrevious(r) ==
    (runs[r].pc \in {"batch", "loop"} /\ runs'[r].pc # runs[r].pc)
       => training_progress'.current >= runs[r].batch_start

\* C36: every event has 0 <= current <= total and percent <= 100, and the
\* current of a run's events never goes down, the final event included.
C36_EventsBoundedAndMonotonic ==
    [][training_progress' # NoProgress
          => /\ EventInRange
             /\ \A r \in RunIds : EventNotBelowPrevious(r)]_vars

\* p is current/total as a percentage rounded to two decimals, in hundredths.
RoundedPercent(p, current, total) ==
    /\ 2 * (10000 * current - p * total) <= total
    /\ 2 * (p * total - 10000 * current) <= total

CeilDiv(n, b) == (n + b - 1) \div b

\* C37: while the breaker stays closed the k-th batch ends at min(k*B, N), so
\* the batches cut the list in order into pieces of B and a last remainder;
\* the k-th event reports that end, total N and the rounded percentage; and a
\* run that gets through has made ceil(N/B) batches.
C37_BatchesAndPercents ==
    LET N == Len(cb.results)
        B == cb.size
    IN  ~cb.open
           => /\ \A k \in 1..Len(cb.events) :
                    /\ cb.events[k].current = Min({k * B, N})
                    /\ cb.events[k].total = N
                    /\ cb.events[k].status = "processing"
                    /\ RoundedPercent(cb.events[k].percent, cb.events[k].current, N)
              /\ cb.batch_start = Min({Len(cb.events) * B, N})
              /\ cb.pc = "done" => Len(cb.events) = CeilDiv(N, B)

\* Scenario A: 120 frames in batches of 50.
C37_Witness ==
    /\ cb.pc = "done"
    /\ ~cb.open
    /\ Len(cb.results) = ScenarioFrames
    /\ cb.size = DEFAULT_BATCH_SIZE
    /\ [k \in 1..Len(cb.events) |-> cb.events[k].current] = <<50, 100, 120>>
    /\ [k \in 1..Len(cb.events) |-> cb.events[k].percent] = <<4167, 8333, 10000>>

\* A step of update_frame_selection: the recorded request changes, or a frame
\* becomes extracted, which nothing else does to an existing frame.
SelectionStep ==
    \/ selection' # selection
    \/ \E f \in Frames :
          frames[f].status # "extracted" /\ frames'[f].status = "extracted"

\* C38: a selection request changes a frame's status only from extracted to
\* selected or back, never changes a trained, training or deleted frame, and
\* writes and counts exactly the frames whose status it changes.
C38_OnlyExtractedAndSelected ==
    [][SelectionStep
          => /\ \A f \in Frames :
                  /\ frames[f].status \in {"trained", "training", "deleted"}
                        => frames'[f] = frames[f]
                  /\ frames'[f].status # frames[f].status
                        => {frames[f].status, frames'[f].status} = {"extracted", "selected"}
                  /\ frames'[f].status = frames[f].status => frames'[f] = frames[f]
             /\ selection'.updated = Cardinality({f \in Frames : frames'[f] # frames[f]})]_vars

\* C38 restricted to select requests, and to deselect requests that name only
\* extracted and selected frames.
C38_WithinExtractedAndSelected ==
    [][(SelectionStep
          /\ (selection'.action = "deselect"
                 => \A f \in selection'.frame_ids :
                       frames[f].status \in {"extracted", "selected"}))
          => /\ \A f \in Frames :
                  /\ frames[f].status \in {"trained", "training", "deleted"}
                        => frames'[f] = frames[f]
                  /\ frames'[f].status # frames[f].status
                        => {frames[f].status, frames'[f].status} = {"extracted", "selected"}
             /\ selection'.updated = Cardinality({f \in Frames : frames'[f] # frames[f]})]_vars
\* The rollback task of job j finds the job completed or failed; some vector
\* it asked the index to delete is still there afterwards.
DeletionFailed(j) ==
    PointIds(RollbackFrames(j)) \cap qdrant' # {}

\* C39: a rollback task whose index deletions fail, some or all, still leaves
\* every matched frame selected with identifier and job link cleared and
\* without replica, and the job rolled_back; so does one that matches no
\* frame.
C39_RollbackDespiteFailedDeletes ==
    [][\A j \in JobIds :
          ( /\ RollbackTaskTaken(j)
            /\ jobs[j].status \in {"completed", "failed"}
            /\ (DeletionFailed(j) \/ RollbackFrames(j) = {}) )
          => /\ \A f \in RollbackFrames(j) :
                   /\ frames'[f].status = "selected"
                   /\ frames'[f].qdrant_point_id = NoPoint
                   /\ frames'[f].training_job_id = NoJob
                   /\ f \notin embeddings'
             /\ jobs'[j].status = "rolled_back"
             /\ jobs'[j].rolled_back_at]_vars

\* A rollback is over, every vector it asked for is still in the index, and
\* the frames are selected again.
C39_Witness ==
    \E j \in JobIds :
        /\ jobs[j].status = "rolled_back"
        /\ last_action[j] = "training_rolled_back"
        /\ Cardinality(delete_calls) = NumFrames
        /\ delete_calls \subseteq qdrant
        /\ embeddings = {}
        /\ \A f \in Frames : /\ frames[f].status = "selected"
                             /\ frames[f].qdrant_point_id = NoPoint
                             /\ frames[f].training_job_id = NoJob
\* Run r ends with this step.
RunEnds(r) == runs[r].pc # "free" /\ runs'[r].pc = "free"

\* Every run that has started ends.
C40_RunsTerminate ==
    \A r \in RunIds : (runs[r].pc # "free") ~> (runs[r].pc = "free")

\* The step that ends a run leaves the job of the run in a status other than
\* processing.
C40_EndsNotProcessing ==
    [][\A r \in RunIds :
          RunEnds(r) => jobs'[runs[r].job_id].status # "processing"]_vars

\* No run whose exception handler gets its commit through leaves its job
\* processing.
C40_EndsNotProcessingIfHandled ==
    [][\A r \in RunIds :
          (RunEnds(r) /\ ~(runs[r].pc = "started" /\ jobs' = jobs))
             => jobs'[runs[r].job_id].status # "processing"]_vars

\* C40: every training run that has started ends, and the step that ends it
\* leaves its job in a status other than processing.
C40_TerminatesNotProcessing ==
    C40_RunsTerminate /\ C40_EndsNotProcessing
====
